---- MODULE Spec2Model ----
(***************************************************************************)
(* Model of fernandwill/sol-test: the account-size inferencer of the       *)
(* Anchor setup module (both revisions) and the CounterState component.    *)
(***************************************************************************)
EXTENDS Integers, Sequences, FiniteSets, TLC

VARIABLES
    typeDef,        \* the IdlTypeDef handed to computeStructSize
    structSize,     \* the value computeStructSize returned
    computed,       \* computeStructSize has returned
    idl,            \* the in-memory IDL document (accounts, types)
    revision,       \* which revision of setup.ts is loaded
    calls,          \* applications of ensureAccountLayout so far
    idlBefore,      \* the document as it was before the last application
    sizeAfterFirst, \* the counter account's size right after the first application
    written,        \* the sizes the two revisions write when given the same document
    wallet,         \* the connected wallet (useAnchorWallet), "none" if disconnected
    chain,          \* per wallet: the state of its counter account on chain
    state,          \* the component's useState values
    rendered,       \* the state values the last render's closures captured
    fetches,        \* per wallet: fetchCounter calls awaiting fetchNullable
    listeners,      \* wallets whose counter account has an active change listener
    invocations,    \* incrementCounter invocations past their guards, not yet finished
    incompatible,   \* per wallet: a deserialization error was detected on its account and
                    \* no later fetch found the account decodable or absent
    ev,             \* the last step taken
    participants,   \* interactingWallets, isLoadingParticipants, participantsError
    walletFetches,  \* fetchInteractingWallets calls started by an effect, awaiting
                    \* getProgramAccounts
    programAccounts,\* the accounts getProgramAccounts returns to the scan
    readCall,       \* a call of readUint64LE: its arguments and its outcome
    instructionList,\* the instructions of the IDL handed to the instruction selection
    selected,       \* the createInstruction and updateInstruction selected from it
    componentRev,   \* which revision of counter-state.tsx is mounted
    mounted,        \* the component is mounted
    effect,         \* the dependency key and subscriptionId of the subscribing effect
    subscriptions,  \* the account-change listeners registered with the connection
    effectRuns,     \* earlier revision: the runs of the effect, each with its isMounted
                    \* flag, its pending getAccountInfo and its listener
    view,           \* earlier revision: counterData and errorMessage
    callback        \* earlier revision: the callback that ran in the last step

sizeVars == <<typeDef, structSize, computed>>
layoutVars == <<idl, revision, calls, idlBefore, sizeAfterFirst, written>>
componentVars ==
    <<wallet, chain, state, rendered, fetches, listeners, invocations, incompatible, ev,
      participants, walletFetches>>
counterVars == <<wallet, chain, state, rendered, fetches, listeners, invocations, incompatible>>
scanVars == <<programAccounts, readCall>>
selectVars == <<instructionList, selected>>
earlierVars == <<effectRuns, view, callback>>
listenerVars == <<componentRev, mounted, effect, subscriptions, earlierVars>>
vars ==
    <<typeDef, structSize, computed, idl, revision, calls, idlBefore, sizeAfterFirst,
      written, wallet, chain, state, rendered, fetches, listeners, invocations, incompatible, ev,
      participants, walletFetches, programAccounts, readCall, instructionList, selected,
      componentRev, mounted, effect, subscriptions, effectRuns, view, callback>>

----------------------------------------------------------------------------
(* Bounds *)

MaxFields == 2
MaxCalls == 2
MaxPendingFetches == 1
MaxInFlight == 2
MaxListeners == 3
MaxInstructions == 3
MaxAccounts == 3
MaxRuns == 2
MaxBufferLen == 9

----------------------------------------------------------------------------
(* IdlType values *)

Prim(n) == [k |-> "prim", name |-> n]
Array(t, n) == [k |-> "array", elem |-> t, lenIsNumber |-> TRUE, len |-> n]
ArrayGenericLen(t) == [k |-> "array", elem |-> t, lenIsNumber |-> FALSE, len |-> 0]
Option(t) == [k |-> "option", inner |-> t]
COption(t) == [k |-> "coption", inner |-> t]
Vec(t) == [k |-> "vec", inner |-> t]
Defined == [k |-> "defined"]
Generic == [k |-> "generic"]

SizedPrimitives ==
    {"bool", "u8", "i8", "u16", "i16", "u32", "i32", "f32",
     "u64", "i64", "f64", "u128", "i128"}

UnsizedPrimitives == {"pubkey", "string"}

ElemPrimitives == {"u8", "u64", "pubkey"}

ArrayLens == {0, 3}

NestedTypes ==
    { Option(Array(Prim("u8"), 3)), Array(Option(Prim("u64")), 3),
      Option(Option(Prim("u16"))), Array(Array(Prim("u32"), 3), 3),
      Option(Vec(Prim("u8"))), Array(Defined, 3) }

FieldTypes ==
    {Prim(n) : n \in SizedPrimitives \cup UnsizedPrimitives}
    \cup {Array(Prim(n), l) : n \in ElemPrimitives, l \in ArrayLens}
    \cup {ArrayGenericLen(Prim("u8"))}
    \cup {Option(Prim(n)) : n \in ElemPrimitives}
    \cup {COption(Prim(n)) : n \in ElemPrimitives}
    \cup {Vec(Prim("u8")), Defined, Generic}
    \cup NestedTypes

SeqsUpTo(S, n) == UNION {[1..m -> S] : m \in 0..n}

----------------------------------------------------------------------------
(* IdlTypeDef values: type.kind, type.fields (absent for a unit struct or  *)
(* an enum), and whether the fields are named ({name, type}) or a tuple    *)
(* of bare IdlTypes.                                                        *)

Struct(named, fields) ==
    [kind |-> "struct", hasFields |-> TRUE, named |-> named, fields |-> fields]
UnitStruct == [kind |-> "struct", hasFields |-> FALSE, named |-> TRUE, fields |-> <<>>]
EnumType == [kind |-> "enum", hasFields |-> FALSE, named |-> TRUE, fields |-> <<>>]
NoType == [kind |-> "none", hasFields |-> FALSE, named |-> TRUE, fields |-> <<>>]

TypeDef(name, type) == [present |-> TRUE, name |-> name, type |-> type]
NoTypeDef == [present |-> FALSE, name |-> "", type |-> NoType]

----------------------------------------------------------------------------
(* setup.ts, later revision *)

NullSize == -1

\* mutant: the presence byte of an option is not counted
sizeForIdlType_OptionNoFlag(t) ==
    LET RECURSIVE sz(_)
        sz(x) ==
            CASE x.k = "prim" ->
                    (CASE x.name \in {"bool", "u8", "i8"} -> 1
                       [] x.name \in {"u16", "i16"} -> 2
                       [] x.name \in {"u32", "i32", "f32"} -> 4
                       [] x.name \in {"u64", "i64", "f64"} -> 8
                       [] x.name \in {"u128", "i128"} -> 16
                       [] OTHER -> 0)
              [] x.k = "array" -> (IF x.lenIsNumber THEN x.len ELSE 0) * sz(x.elem)
              [] x.k \in {"option", "coption"} -> sz(x.inner)
              [] OTHER -> 0
    IN sz(t)

\* mutant: a vector is counted as its 4-byte length prefix
sizeForIdlType_VecPrefix(t) ==
    LET RECURSIVE sz(_)
        sz(x) ==
            CASE x.k = "prim" ->
                    (CASE x.name \in {"bool", "u8", "i8"} -> 1
                       [] x.name \in {"u16", "i16"} -> 2
                       [] x.name \in {"u32", "i32", "f32"} -> 4
                       [] x.name \in {"u64", "i64", "f64"} -> 8
                       [] x.name \in {"u128", "i128"} -> 16
                       [] OTHER -> 0)
              [] x.k = "array" -> (IF x.lenIsNumber THEN x.len ELSE 0) * sz(x.elem)
              [] x.k \in {"option", "coption"} -> 1 + sz(x.inner)
              [] x.k = "vec" -> 4
              [] OTHER -> 0
    IN sz(t)

RECURSIVE sizeForIdlType(_)
sizeForIdlType(idlType) ==
    CASE idlType.k = "prim" ->
            (CASE idlType.name \in {"bool", "u8", "i8"} -> 1
               [] idlType.name \in {"u16", "i16"} -> 2
               [] idlType.name \in {"u32", "i32", "f32"} -> 4
               [] idlType.name \in {"u64", "i64", "f64"} -> 8
               [] idlType.name \in {"u128", "i128"} -> 16
               [] OTHER -> 0)
      [] idlType.k = "array" ->
            (IF idlType.lenIsNumber THEN idlType.len ELSE 0) * sizeForIdlType(idlType.elem)
      [] idlType.k \in {"option", "coption"} -> 1 + sizeForIdlType(idlType.inner)
      [] idlType.k = "vec" -> 0
      [] idlType.k = "defined" -> 0
      [] idlType.k = "generic" -> 0
      [] OTHER -> 0

\* fields.reduce((total, field) => total + sizeForIdlType(...), 0): a left fold
RECURSIVE reduceFields(_, _)
reduceFields(fields, total) ==
    IF fields = <<>> THEN total
    ELSE reduceFields(Tail(fields), total + sizeForIdlType(Head(fields)))

\* mutant: the reduce callback returns the field's size without the running total
computeStructSize_DropsTotal(td) ==
    IF ~td.present THEN NullSize
    ELSE IF td.type.kind # "struct" \/ ~td.type.hasFields THEN NullSize
    ELSE IF td.type.fields = <<>> THEN 0
    ELSE sizeForIdlType(td.type.fields[Len(td.type.fields)])

computeStructSize(td) ==
    IF ~td.present THEN NullSize
    ELSE IF td.type.kind # "struct" \/ ~td.type.hasFields THEN NullSize
    ELSE reduceFields(td.type.fields, 0)

----------------------------------------------------------------------------
(* The IDL document: idl.accounts and idl.types.  An account entry's size  *)
(* attribute is absent, a number, or some other JSON value.                 *)

AbsentSize == [kind |-> "absent", value |-> 0]
NumberSize(n) == [kind |-> "number", value |-> n]
OtherSize == [kind |-> "other", value |-> 0]

Account(name, size, type) == [name |-> name, size |-> size, type |-> type]

\* Array.prototype.find: the first of the indices whose element satisfies the
\* predicate, 0 if there is none
FirstIndex(I) == IF I = {} THEN 0 ELSE CHOOSE i \in I : \A j \in I : i <= j

accountMatches(name) == name = "counter" \/ name = "Counter"

\* mutant: the typeof check on account.size dropped
ensureAccountLayout_AlwaysWrite(doc) ==
    LET ai == FirstIndex({i \in DOMAIN doc.accounts : accountMatches(doc.accounts[i].name)})
        ti == FirstIndex({i \in DOMAIN doc.types : accountMatches(doc.types[i].name)})
        counterTypeDef == IF ti = 0 THEN NoTypeDef ELSE doc.types[ti]
        computedSize == computeStructSize(counterTypeDef)
    IN IF ai = 0 THEN doc
       ELSE LET account == doc.accounts[ai]
                newSize == IF computedSize # NullSize
                           THEN NumberSize(8 + computedSize)
                           ELSE account.size
                newType == IF account.type = NoType /\ counterTypeDef.present
                           THEN counterTypeDef.type
                           ELSE account.type
            IN [doc EXCEPT !.accounts[ai] = Account(account.name, newSize, newType)]

\* mutant: account.size = (account.size ?? 0) + 8 + structSize
ensureAccountLayout_AddsToExisting(doc) ==
    LET ai == FirstIndex({i \in DOMAIN doc.accounts : accountMatches(doc.accounts[i].name)})
        ti == FirstIndex({i \in DOMAIN doc.types : accountMatches(doc.types[i].name)})
        counterTypeDef == IF ti = 0 THEN NoTypeDef ELSE doc.types[ti]
        computedSize == computeStructSize(counterTypeDef)
    IN IF ai = 0 THEN doc
       ELSE LET account == doc.accounts[ai]
                newSize == IF computedSize # NullSize
                           THEN NumberSize(account.size.value + 8 + computedSize)
                           ELSE account.size
                newType == IF account.type = NoType /\ counterTypeDef.present
                           THEN counterTypeDef.type
                           ELSE account.type
            IN [doc EXCEPT !.accounts[ai] = Account(account.name, newSize, newType)]

\* mutant: every account entry with a matching name is annotated
ensureAccountLayout_AllMatching(doc) ==
    LET ti == FirstIndex({i \in DOMAIN doc.types : accountMatches(doc.types[i].name)})
        counterTypeDef == IF ti = 0 THEN NoTypeDef ELSE doc.types[ti]
        computedSize == computeStructSize(counterTypeDef)
    IN [doc EXCEPT !.accounts =
           [i \in 1..Len(doc.accounts) |->
               LET account == doc.accounts[i]
               IN IF ~accountMatches(account.name) THEN account
                  ELSE Account(account.name,
                               IF account.size.kind # "number" /\ computedSize # NullSize
                               THEN NumberSize(8 + computedSize) ELSE account.size,
                               IF account.type = NoType /\ counterTypeDef.present
                               THEN counterTypeDef.type ELSE account.type)]]

ensureAccountLayout(doc) ==
    LET ai == FirstIndex({i \in DOMAIN doc.accounts : accountMatches(doc.accounts[i].name)})
        ti == FirstIndex({i \in DOMAIN doc.types : accountMatches(doc.types[i].name)})
        counterTypeDef == IF ti = 0 THEN NoTypeDef ELSE doc.types[ti]
        computedSize == computeStructSize(counterTypeDef)
    IN IF ai = 0 THEN doc
       ELSE LET account == doc.accounts[ai]
                newSize == IF account.size.kind # "number" /\ computedSize # NullSize
                           THEN NumberSize(8 + computedSize)
                           ELSE account.size
                newType == IF account.type = NoType /\ counterTypeDef.present
                           THEN counterTypeDef.type
                           ELSE account.type
            IN [doc EXCEPT !.accounts[ai] = Account(account.name, newSize, newType)]

----------------------------------------------------------------------------
(* setup.ts, earlier revision *)

\* the reduce callback: the width added for one field
earlierFieldSize(named, fieldType) ==
    IF named /\ fieldType.k = "prim"
    THEN CASE fieldType.name = "u8" -> 1
           [] fieldType.name = "u16" -> 2
           [] fieldType.name = "u32" -> 4
           [] fieldType.name = "u64" -> 8
           [] fieldType.name = "u128" -> 16
           [] fieldType.name = "bool" -> 1
           [] OTHER -> 0
    ELSE 0

RECURSIVE earlierReduce(_, _, _)
earlierReduce(named, fields, total) ==
    IF fields = <<>> THEN total
    ELSE earlierReduce(named, Tail(fields), total + earlierFieldSize(named, Head(fields)))

\* counterType?.fields?.reduce(...) ?? 0
earlierStructSize(td) ==
    IF td.present /\ td.type.hasFields
    THEN earlierReduce(td.type.named, td.type.fields, 0)
    ELSE 0

ensureAccountLayoutEarlier(doc) ==
    LET ai == FirstIndex({i \in DOMAIN doc.accounts : doc.accounts[i].name = "counter"})
        ti == FirstIndex({i \in DOMAIN doc.types : doc.types[i].name = "counter"})
        counterTypeDef == IF ti = 0 THEN NoTypeDef ELSE doc.types[ti]
    IN IF ai # 0 /\ doc.accounts[ai].size.kind = "absent"
       THEN LET account == doc.accounts[ai]
                newType == IF account.type = NoType /\ counterTypeDef.present
                           THEN counterTypeDef.type
                           ELSE account.type
            IN [doc EXCEPT !.accounts[ai] =
                    Account(account.name, NumberSize(8 + earlierStructSize(counterTypeDef)), newType)]
       ELSE doc

----------------------------------------------------------------------------
(* The documents and type definitions the inferencer is run on *)

StructTypes(types) ==
    {Struct(named, f) : named \in BOOLEAN, f \in SeqsUpTo(types, MaxFields)}
    \cup {UnitStruct, EnumType}

SizeTypeDefs == {NoTypeDef} \cup {TypeDef("counter", t) : t \in StructTypes(FieldTypes)}

LayoutTypes ==
    {Prim("u8"), Prim("u64"), Prim("i64"), Prim("pubkey"), Option(Prim("u8")), Vec(Prim("u8"))}

AccountNames == {"counter", "Counter"}
TypeNames == {"counter", "Counter", "other"}
SizeAttrs == {AbsentSize, NumberSize(48), OtherSize}
TypeAttrs == {NoType, UnitStruct}

OtherAccount == Account("other", AbsentSize, NoType)

AccountLists ==
    {<<>>}
    \cup {<<Account(n, s, t)>> : n \in AccountNames, s \in SizeAttrs, t \in TypeAttrs}
    \cup {<<OtherAccount, Account(n, s, t)>> : n \in AccountNames, s \in SizeAttrs, t \in TypeAttrs}
    \cup {<<Account(n, s, NoType), Account(m, AbsentSize, NoType)>> :
              n \in AccountNames, m \in AccountNames \cup {"other"}, s \in SizeAttrs}

TypeLists ==
    {<<>>} \cup {<<TypeDef(n, t)>> : n \in TypeNames, t \in StructTypes(LayoutTypes)}

IdlDocuments == {[accounts |-> a, types |-> t] : a \in AccountLists, t \in TypeLists}

\* counter.ts: accounts and types of the Counter IDL
CounterIdl ==
    [accounts |-> <<Account("counter", AbsentSize, NoType)>>,
     types |-> <<TypeDef("counter", Struct(TRUE, <<Prim("pubkey"), Prim("u64")>>))>>]

\* the account entry ensureAccountLayout (later revision) looks at
CounterAccountIndex(doc) == FirstIndex({i \in DOMAIN doc.accounts : accountMatches(doc.accounts[i].name)})
CounterAccount(doc) == doc.accounts[CounterAccountIndex(doc)]
CounterTypeDef(doc) ==
    LET ti == FirstIndex({i \in DOMAIN doc.types : accountMatches(doc.types[i].name)})
    IN IF ti = 0 THEN NoTypeDef ELSE doc.types[ti]
\* the account entry the earlier revision looks at
EarlierAccountIndex(doc) == FirstIndex({i \in DOMAIN doc.accounts : doc.accounts[i].name = "counter"})

----------------------------------------------------------------------------
(* counter-state.tsx: values *)

Wallets == {"A", "B"}
NoWallet == "none"
NullData == "null"
NoSignature == 0
MIN_BALANCE_LAMPORTS == 100000
Balances == {0, MIN_BALANCE_LAMPORTS - 1, MIN_BALANCE_LAMPORTS}

\* counter.ts: the instructions of the Counter IDL, with their account names
CounterInstructions ==
    << [name |-> "createCounter", accounts |-> <<"authority", "counter", "systemProgram">>],
       [name |-> "updateCounter", accounts |-> <<"authority", "counter">>] >>

\* the states of a counter account on chain: absent, decodable, or holding
\* data the client's schema does not decode
AccountStates == {"absent", "ok", "corrupt"}

InitialState ==
    [counterData |-> NullData, errorMessage |-> "none", isProcessing |-> FALSE,
     hasCorruptedCounter |-> FALSE, txSignature |-> NoSignature]

\* what the closures of a render read of the state
Captured(s) ==
    [counterData |-> s.counterData, hasCorruptedCounter |-> s.hasCorruptedCounter,
     isProcessing |-> s.isProcessing]

\* the last step: a click (with the guard's verdict, whether the render that
\* handled it was up to date, and the invocations in flight before it), an
\* instruction call (with the instruction and whether the account existed when
\* it was issued), the end of an invocation, or any other step
NoEvent ==
    [type |-> "other", instr |-> "none", existed |-> FALSE, result |-> "none",
     upToDate |-> FALSE, inFlightBefore |-> 0, caught |-> "none"]

ClickEvent(result, upToDate, before) ==
    [type |-> "click", instr |-> "none", existed |-> FALSE, result |-> result,
     upToDate |-> upToDate, inFlightBefore |-> before, caught |-> "none"]

RpcEvent(instr, existed) ==
    [type |-> "rpc", instr |-> instr, existed |-> existed, result |-> "issued",
     upToDate |-> FALSE, inFlightBefore |-> 0, caught |-> "none"]

EndEvent(result) ==
    [type |-> "incrementEnd", instr |-> "none", existed |-> FALSE, result |-> result,
     upToDate |-> FALSE, inFlightBefore |-> 0, caught |-> "none"]

----------------------------------------------------------------------------
(* counter-state.tsx: the participant scan *)

\* dataSlice length, dataSize filter and minimum length of a scanned account
ParticipantDataSize == 48

Repeat(b, n) == [i \in 1..n |-> b]

\* counter.ts: the discriminator of the counter account
CounterDiscriminator == <<255, 176, 4, 245, 188, 253, 124, 25>>

\* the data of a counter account: discriminator, authority, count (little-endian)
AccountData(authority, lowBytes) ==
    CounterDiscriminator \o authority \o lowBytes \o Repeat(0, 8 - Len(lowBytes))

\* the 32 bytes of a wallet's public key
KeyBytes(w) == Repeat(IF w = "A" THEN 1 ELSE 2, 32)

\* a bigint below 2^64: four limbs of 16 bits, the least significant first
LimbBase == 65536
Zero64 == <<0, 0, 0, 0>>

RECURSIVE Pow2(_)
Pow2(n) == IF n = 0 THEN 1 ELSE 2 * Pow2(n - 1)

\* a | b on two limbs
RECURSIVE BitOr(_, _)
BitOr(a, b) ==
    IF a = 0 THEN b
    ELSE IF b = 0 THEN a
    ELSE (IF a % 2 = 1 \/ b % 2 = 1 THEN 1 ELSE 0) + 2 * BitOr(a \div 2, b \div 2)

\* BigInt(byte) << BigInt(bits), bits a multiple of 8 below 64
shiftLeft(byte, bits) ==
    [k \in 1..4 |-> IF k = (bits \div 16) + 1 THEN byte * Pow2(bits % 16) ELSE 0]

\* value | shifted
or64(value, shifted) == [k \in 1..4 |-> BitOr(value[k], shifted[k])]

\* mutant: the byte at index is shifted by (7 - index) * 8
RECURSIVE readLoop_BigEndian(_, _, _, _)
readLoop_BigEndian(buffer, offset, index, value) ==
    IF index = 8 THEN value
    ELSE readLoop_BigEndian(buffer, offset, index + 1,
                            or64(value, shiftLeft(buffer[offset + index + 1], (7 - index) * 8)))

\* the loop of readUint64LE: value |= BigInt(buffer[offset + index]) << BigInt(index * 8)
RECURSIVE readLoop(_, _, _, _)
readLoop(buffer, offset, index, value) ==
    IF index = 8 THEN value
    ELSE readLoop(buffer, offset, index + 1,
                  or64(value, shiftLeft(buffer[offset + index + 1], index * 8)))

\* readUint64LE threw: there is no value
ReadError == <<>>

readUint64LE(buffer, offset) ==
    IF Len(buffer) < offset + 8 THEN ReadError ELSE readLoop(buffer, offset, 0, Zero64)

\* one long division of a bigint by 10: quotient and remainder
RECURSIVE divideByTen(_, _, _, _)
divideByTen(value, k, remainder, quotient) ==
    IF k = 0 THEN [q |-> quotient, r |-> remainder]
    ELSE LET current == remainder * LimbBase + value[k]
         IN divideByTen(value, k - 1, current % 10, [quotient EXCEPT ![k] = current \div 10])

\* bigint.toString(): the decimal digits, most significant first
RECURSIVE ToDecimal(_)
ToDecimal(value) ==
    IF value[2] = 0 /\ value[3] = 0 /\ value[4] = 0 /\ value[1] < 10 THEN <<value[1]>>
    ELSE LET d == divideByTen(value, 4, 0, Zero64)
         IN Append(ToDecimal(d.q), d.r)

\* new PublicKey(bytes).toBase58(): an encoding that tells apart any two keys
toBase58(bytes) == [base58 |-> bytes]

NoParticipant == [address |-> [base58 |-> <<>>], count |-> <<>>]

\* mutant: the authority is read from the start of the account data
decodeParticipant_NoDiscriminator(data) ==
    IF Len(data) < ParticipantDataSize THEN NoParticipant
    ELSE [address |-> toBase58(SubSeq(data, 1, 32)),
          count |-> ToDecimal(readUint64LE(data, 40))]

\* the callback of programAccounts.map
decodeParticipant(data) ==
    IF Len(data) < ParticipantDataSize THEN NoParticipant
    ELSE IF readUint64LE(data, 40) = ReadError THEN NoParticipant
    ELSE [address |-> toBase58(SubSeq(data, 9, 40)),
          count |-> ToDecimal(readUint64LE(data, 40))]

\* programAccounts.map(...).filter(Boolean)
decodedParticipants(accounts) ==
    LET mapped == [i \in 1..Len(accounts) |-> decodeParticipant(accounts[i])]
        Decoded(x) == x # NoParticipant
    IN SelectSeq(mapped, Decoded)

\* mutant: the seenAddresses test is missing
uniqueParticipants_KeepsAll(participantList) == participantList

\* the loop over participants with seenAddresses
RECURSIVE uniqueLoop(_, _, _)
uniqueLoop(participantList, i, unique) ==
    IF i > Len(participantList) THEN unique
    ELSE IF \E j \in DOMAIN unique : unique[j].address = participantList[i].address
         THEN uniqueLoop(participantList, i + 1, unique)
         ELSE uniqueLoop(participantList, i + 1, Append(unique, participantList[i]))

uniqueParticipants(participantList) == uniqueLoop(participantList, 1, <<>>)

InitialParticipants ==
    [interactingWallets |-> <<>>, isLoadingParticipants |-> FALSE, participantsError |-> "none"]

\* fetchInteractingWallets before its await
fetchInteractingWalletsStart(p) ==
    [p EXCEPT !.isLoadingParticipants = TRUE, !.participantsError = "none"]

\* mutant: the catch block sets no message
fetchInteractingWalletsFailed_Silent(p) ==
    [p EXCEPT !.interactingWallets = <<>>, !.isLoadingParticipants = FALSE]

\* getProgramAccounts rejected: the catch and finally blocks
fetchInteractingWalletsFailed(p) ==
    [p EXCEPT !.participantsError = "loadFailed", !.interactingWallets = <<>>,
              !.isLoadingParticipants = FALSE]

\* getProgramAccounts resolved: the try and finally blocks
fetchInteractingWalletsLoaded(p, accounts) ==
    [p EXCEPT !.interactingWallets = uniqueParticipants(decodedParticipants(accounts)),
              !.isLoadingParticipants = FALSE]

\* a fetchInteractingWallets call has finished
ScanEvent(result) ==
    [type |-> "scan", instr |-> "none", existed |-> FALSE, result |-> result,
     upToDate |-> FALSE, inFlightBefore |-> 0, caught |-> "none"]

\* a step in which the handler caught the failure of an external call
Caught(event, call) == [event EXCEPT !.caught = call]

CounterIdle ==
    /\ wallet = NoWallet
    /\ chain = [w \in Wallets |-> "absent"]
    /\ state = InitialState
    /\ rendered = Captured(InitialState)
    /\ fetches = [w \in Wallets |-> 0]
    /\ listeners = {}
    /\ invocations = <<>>
    /\ incompatible = [w \in Wallets |-> FALSE]

ComponentIdle ==
    /\ CounterIdle
    /\ ev = NoEvent
    /\ participants = InitialParticipants
    /\ walletFetches = 0

NoRead == [buffer |-> <<>>, offset |-> 0, outcome |-> "none", value |-> Zero64]

ScanIdle ==
    /\ programAccounts = <<>>
    /\ readCall = NoRead

NothingSelected == [done |-> FALSE, createInstruction |-> 0, updateInstruction |-> 0]

SelectIdle ==
    /\ instructionList = <<>>
    /\ selected = NothingSelected

NoEffect == [key |-> "none", subscriptionId |-> 0]

\* earlier counter-state.tsx: useState(null), useState(null)
InitialView == [counterData |-> NullData, errorMessage |-> "none"]

\* getAccountInfo returned null
NoAccountInfo == [present |-> FALSE, decodable |-> FALSE, data |-> NullData]

NoCallback == [run |-> 0, kind |-> "none", wasMounted |-> FALSE, accountInfo |-> NoAccountInfo]

EarlierIdle ==
    /\ effectRuns = <<>>
    /\ view = InitialView
    /\ callback = NoCallback

ListenerIdle ==
    /\ componentRev = "later"
    /\ mounted = FALSE
    /\ effect = NoEffect
    /\ subscriptions = <<>>
    /\ EarlierIdle

----------------------------------------------------------------------------
(* Specification of the size inferencer alone *)

EmptyIdl == [accounts |-> <<>>, types |-> <<>>]

NothingWritten == [done |-> FALSE, earlier |-> AbsentSize, later |-> AbsentSize]

LayoutIdle ==
    /\ idl = EmptyIdl
    /\ revision = "later"
    /\ calls = 0
    /\ idlBefore = EmptyIdl
    /\ sizeAfterFirst = AbsentSize
    /\ written = NothingWritten

SizeIdle ==
    /\ typeDef = NoTypeDef
    /\ structSize = NullSize
    /\ computed = FALSE

InitSize ==
    /\ typeDef \in SizeTypeDefs
    /\ structSize = NullSize
    /\ computed = FALSE
    /\ LayoutIdle
    /\ ComponentIdle
    /\ ScanIdle
    /\ SelectIdle
    /\ ListenerIdle

ComputeStructSize ==
    /\ ~computed
    /\ computed' = TRUE
    /\ structSize' = computeStructSize(typeDef)
    /\ UNCHANGED <<typeDef, layoutVars, componentVars, scanVars, selectVars, listenerVars>>

NextSize == ComputeStructSize

SpecSize == InitSize /\ [][NextSize]_vars

----------------------------------------------------------------------------
(* Specification of the module-load step that annotates the document *)

InitLayout ==
    /\ idl \in IdlDocuments
    /\ revision \in {"earlier", "later"}
    /\ calls = 0
    /\ idlBefore = idl
    /\ sizeAfterFirst = AbsentSize
    /\ written = NothingWritten
    /\ SizeIdle
    /\ ComponentIdle
    /\ ScanIdle
    /\ SelectIdle
    /\ ListenerIdle

SizeOfCounter(doc, rev) ==
    LET ai == IF rev = "later" THEN CounterAccountIndex(doc) ELSE EarlierAccountIndex(doc)
    IN IF ai = 0 THEN AbsentSize ELSE doc.accounts[ai].size

EnsureAccountLayoutLater ==
    /\ revision = "later"
    /\ calls < MaxCalls
    /\ idl' = ensureAccountLayout(idl)
    /\ idlBefore' = idl
    /\ calls' = calls + 1
    /\ sizeAfterFirst' = IF calls = 0 THEN SizeOfCounter(idl', revision) ELSE sizeAfterFirst
    /\ UNCHANGED <<revision, written, sizeVars, componentVars, scanVars, selectVars,
                   listenerVars>>

EnsureAccountLayoutEarlier ==
    /\ revision = "earlier"
    /\ calls < MaxCalls
    /\ idl' = ensureAccountLayoutEarlier(idl)
    /\ idlBefore' = idl
    /\ calls' = calls + 1
    /\ sizeAfterFirst' = IF calls = 0 THEN SizeOfCounter(idl', revision) ELSE sizeAfterFirst
    /\ UNCHANGED <<revision, written, sizeVars, componentVars, scanVars, selectVars,
                   listenerVars>>

NextLayout == EnsureAccountLayoutLater \/ EnsureAccountLayoutEarlier

SpecLayout == InitLayout /\ [][NextLayout]_vars

----------------------------------------------------------------------------
(* The two revisions of setup.ts, each loaded on the same counter.json *)

\* documents with the account entry and the type both revisions look for: an
\* entry named counter with no size, and the type definition td if there is one
SchemaDocument(td) ==
    [accounts |-> <<Account("counter", AbsentSize, NoType)>>,
     types |-> IF td.present THEN <<td>> ELSE <<>>]

InitRevisions ==
    /\ idl \in {SchemaDocument(td) : td \in SizeTypeDefs}
    /\ revision = "later"
    /\ calls = 0
    /\ idlBefore = idl
    /\ sizeAfterFirst = AbsentSize
    /\ written = NothingWritten
    /\ SizeIdle
    /\ ComponentIdle
    /\ ScanIdle
    /\ SelectIdle
    /\ ListenerIdle

\* const IDL = ensureAccountLayout(counterIdl), in each of the revisions
LoadBothRevisions ==
    /\ ~written.done
    /\ written' = [done |-> TRUE,
                   earlier |-> SizeOfCounter(ensureAccountLayoutEarlier(idl), "earlier"),
                   later |-> SizeOfCounter(ensureAccountLayout(idl), "later")]
    /\ UNCHANGED <<idl, revision, calls, idlBefore, sizeAfterFirst, sizeVars, componentVars,
                   scanVars, selectVars, listenerVars>>

NextRevisions == LoadBothRevisions

SpecRevisions == InitRevisions /\ [][NextRevisions]_vars

----------------------------------------------------------------------------
(* counter-state.tsx: instruction selection *)

hasSystemProgram(inst) ==
    \E i \in DOMAIN inst.accounts : inst.accounts[i] \in {"systemProgram", "system_program"}

\* instructions are identified by their index in the list; 0 is null
createInstruction(instructions) ==
    FirstIndex({i \in DOMAIN instructions : hasSystemProgram(instructions[i])})

\* mutant: the update candidate is the first instruction, whatever it is
updateInstruction_FirstOfList(instructions) ==
    FirstIndex(DOMAIN instructions)

updateInstruction(instructions) ==
    FirstIndex({i \in DOMAIN instructions : i # createInstruction(instructions)})

\* a ?? b
Coalesce(a, b) == IF a # 0 THEN a ELSE b

preferredInstruction(shouldInitialize, instructions) ==
    IF shouldInitialize
    THEN Coalesce(createInstruction(instructions), updateInstruction(instructions))
    ELSE Coalesce(updateInstruction(instructions), createInstruction(instructions))

\* mutant: the fallback is tried after any failed call
fallbackApplies_Always(shouldInitialize, preferred, instructions) ==
    createInstruction(instructions) # 0

\* the condition under which a failed call is followed by the create instruction
fallbackApplies(shouldInitialize, preferred, instructions) ==
    /\ ~shouldInitialize
    /\ createInstruction(instructions) # 0
    /\ preferred # createInstruction(instructions)

----------------------------------------------------------------------------
(* counter-state.tsx: the external program and RPC node *)

\* whether the program executes the instruction on an account in this state
ProgramAccepts(name, account) ==
    CASE name = "createCounter" -> account = "absent"
      [] name = "updateCounter" -> account = "ok"
      [] OTHER -> FALSE

\* the errors an instruction call can be rejected with
RpcFailures(account) ==
    {"generic", "mismatch"} \cup (IF account = "corrupt" THEN {"deserialize"} ELSE {})

\* what fetchNullable can settle with: the account as it is on chain, or a failure
FetchOutcomes(account) == {account, "fail"}

----------------------------------------------------------------------------
(* counter-state.tsx: state updates *)

\* fetchCounter before its await, when there is no program
fetchCounterNoProgram(s) ==
    [s EXCEPT !.errorMessage = "connectToLoad", !.counterData = NullData]

\* fetchCounter after fetchNullable settled
fetchCounterResult(s, w, outcome) ==
    CASE outcome = "absent" ->
            [s EXCEPT !.counterData = NullData, !.errorMessage = "notFound",
                      !.hasCorruptedCounter = FALSE]
      [] outcome = "ok" ->
            [s EXCEPT !.counterData = w, !.errorMessage = "none",
                      !.hasCorruptedCounter = FALSE]
      [] outcome = "corrupt" ->
            [s EXCEPT !.counterData = NullData, !.hasCorruptedCounter = TRUE,
                      !.errorMessage = "fetchIncompatible"]
      [] OTHER -> [s EXCEPT !.errorMessage = "fetchFailed"]

\* the effect on [walletAddress]
resetOnWalletChange(s) ==
    [s EXCEPT !.counterData = NullData, !.errorMessage = "none",
              !.hasCorruptedCounter = FALSE, !.txSignature = NoSignature]

\* mutant: the hasCorruptedCounter guard is missing
incrementGuard_NoCorruptedCheck(r, w) ==
    IF w = NoWallet THEN "connect"
    ELSE IF r.isProcessing THEN "busy"
    ELSE "start"

\* the guards of incrementCounter, on the values its closure captured
incrementGuard(r, w) ==
    IF w = NoWallet THEN "connect"
    ELSE IF r.hasCorruptedCounter THEN "remediation"
    ELSE IF r.isProcessing THEN "busy"
    ELSE "start"

\* mutant: setIsProcessing(true) is missing
startProcessing_FlagNotSet(s) ==
    [s EXCEPT !.txSignature = NoSignature, !.errorMessage = "none"]

\* mutant: the signature of the last attempt is not cleared
startProcessing_KeepsSignature(s) ==
    [s EXCEPT !.isProcessing = TRUE, !.errorMessage = "none"]

\* setIsProcessing(true); setTxSignature(null); setErrorMessage(null)
startProcessing(s) ==
    [s EXCEPT !.isProcessing = TRUE, !.txSignature = NoSignature, !.errorMessage = "none"]

\* the catch block of incrementCounter
incrementFailure(s, kind) ==
    CASE kind = "deserialize" ->
            [s EXCEPT !.hasCorruptedCounter = TRUE, !.errorMessage = "incrementStale"]
      [] kind = "mismatch" -> [s EXCEPT !.errorMessage = "programIdMismatch"]
      [] OTHER -> [s EXCEPT !.errorMessage = "incrementFailed"]

\* mutant: the return on a low balance reports nothing
insufficientBalance_Silent(s) == s

\* balance < MIN_BALANCE_LAMPORTS: the message to fund the wallet, then return
insufficientBalance(s) == [s EXCEPT !.errorMessage = "needsSol"]

\* mutant: the finally block is missing
finishProcessing_Missing(s) == s

\* the finally block of incrementCounter
finishProcessing(s) == [s EXCEPT !.isProcessing = FALSE]

\* after a successful instruction call
incrementSuccess(s, signature) ==
    [s EXCEPT !.hasCorruptedCounter = FALSE, !.txSignature = signature]

----------------------------------------------------------------------------
(* counter-state.tsx: bookkeeping *)

PendingFetches(f) == f["A"] + f["B"]

\* a fetchCounter call reaches its await; beyond MaxPendingFetches the call is
\* left out, as a call whose promise never settles
AddFetch(f, w) ==
    IF PendingFetches(f) < MaxPendingFetches THEN [f EXCEPT ![w] = f[w] + 1] ELSE f

\* a fetchInteractingWallets call reaches its await, with the same cap
AddScan(n) == IF n < MaxPendingFetches THEN n + 1 ELSE n

\* what getProgramAccounts returns: the decodable counter accounts, whose data
\* has the size the filter asks for
OnChainAccounts(c) ==
    (IF c["A"] = "ok" THEN <<AccountData(KeyBytes("A"), <<1>>)>> ELSE <<>>)
    \o (IF c["B"] = "ok" THEN <<AccountData(KeyBytes("B"), <<1>>)>> ELSE <<>>)

\* the account-change listener of w, if active, calls fetchCounter
Notify(f, w) == IF w \in listeners THEN AddFetch(f, w) ELSE f

RemoveAt(seq, i) == [j \in 1..(Len(seq) - 1) |-> IF j < i THEN seq[j] ELSE seq[j + 1]]

Invocation(id, pc, w, shouldInitialize, issued) ==
    [id |-> id, pc |-> pc, w |-> w, shouldInitialize |-> shouldInitialize, issued |-> issued]

\* the signature an invocation's successful call returns: one that differs from
\* the one displayed and from those of the invocations in flight
FreshId ==
    CHOOSE n \in 1..(MaxInFlight + 1) :
        /\ n # state.txSignature
        /\ \A i \in DOMAIN invocations : invocations[i].id # n
        /\ \A m \in 1..(n - 1) :
              m = state.txSignature \/ \E i \in DOMAIN invocations : invocations[i].id = m

\* what a fetch outcome tells about the account of w
Learn(inc, w, outcome) ==
    CASE outcome = "corrupt" -> [inc EXCEPT ![w] = TRUE]
      [] outcome \in {"ok", "absent"} -> [inc EXCEPT ![w] = FALSE]
      [] OTHER -> inc

----------------------------------------------------------------------------
(* counter-state.tsx: the component *)

Init ==
    /\ wallet = NoWallet
    /\ chain \in [Wallets -> AccountStates]
    /\ state = fetchCounterNoProgram(resetOnWalletChange(InitialState))
    /\ rendered = Captured(InitialState)
    /\ fetches = [w \in Wallets |-> 0]
    /\ listeners = {}
    /\ invocations = <<>>
    /\ incompatible = [w \in Wallets |-> FALSE]
    /\ ev = NoEvent
    /\ participants = InitialParticipants
    /\ walletFetches = 0
    /\ SizeIdle
    /\ LayoutIdle
    /\ ScanIdle
    /\ SelectIdle
    /\ ListenerIdle

\* the wallet adapter connects, switches or disconnects: a render with the new
\* wallet, then the effects on [walletAddress] and on [connection, counterPDA,
\* fetchCounter, program]
WalletChangeCore(w2) ==
    /\ w2 # wallet
    /\ wallet' = w2
    /\ rendered' = Captured(state)
    /\ state' = IF w2 = NoWallet
                THEN fetchCounterNoProgram(resetOnWalletChange(state))
                ELSE resetOnWalletChange(state)
    /\ listeners' = (listeners \ {wallet}) \cup (IF w2 = NoWallet THEN {} ELSE {w2})
    /\ fetches' = IF w2 = NoWallet THEN fetches ELSE AddFetch(fetches, w2)
    /\ ev' = NoEvent
    /\ UNCHANGED <<chain, invocations, incompatible, sizeVars, layoutVars,
                 scanVars, selectVars, listenerVars>>

\* the wallet change, the state of the participant scan left out
WalletChange(w2) ==
    /\ WalletChangeCore(w2)
    /\ UNCHANGED <<participants, walletFetches>>

\* the wallet change with the effect on [fetchInteractingWallets, walletAddress]
WalletChangeWithScan(w2) ==
    /\ WalletChangeCore(w2)
    /\ participants' = fetchInteractingWalletsStart(participants)
    /\ walletFetches' = AddScan(walletFetches)

\* React re-renders with the state set since the last render
Render ==
    /\ rendered # Captured(state)
    /\ rendered' = Captured(state)
    /\ ev' = NoEvent
    /\ UNCHANGED <<wallet, chain, state, fetches, listeners, invocations, incompatible, sizeVars, layoutVars,
                 scanVars, selectVars, listenerVars, participants, walletFetches>>

\* the counter account of w changes without this component: the account is
\* closed, is created from another session, or the program is redeployed with
\* another layout
ChainEvent(w, a) ==
    /\ a # chain[w]
    /\ a = "corrupt" => chain[w] = "ok"
    /\ chain' = [chain EXCEPT ![w] = a]
    /\ fetches' = Notify(fetches, w)
    /\ ev' = NoEvent
    /\ UNCHANGED <<wallet, state, rendered, listeners, invocations, incompatible, sizeVars, layoutVars,
                 scanVars, selectVars, listenerVars, participants, walletFetches>>

\* a fetchCounter started by an effect or a listener settles
FetchSettleCore(w, outcome) ==
    /\ fetches[w] > 0
    /\ outcome \in FetchOutcomes(chain[w])
    /\ fetches' = [fetches EXCEPT ![w] = fetches[w] - 1]
    /\ state' = fetchCounterResult(state, w, outcome)
    /\ incompatible' = Learn(incompatible, w, outcome)
    /\ UNCHANGED <<wallet, chain, rendered, listeners, invocations, sizeVars, layoutVars,
                 scanVars, selectVars, listenerVars, participants, walletFetches>>

FetchSettle(w, outcome) ==
    /\ FetchSettleCore(w, outcome)
    /\ ev' = NoEvent

\* the same step, recording whether fetchCounter's catch block ran
FetchSettleObserved(w, outcome) ==
    /\ FetchSettleCore(w, outcome)
    /\ ev' = IF outcome \in {"corrupt", "fail"}
             THEN Caught(NoEvent, "fetchNullable") ELSE NoEvent

\* the Increment button is clicked: incrementCounter up to its first await
Click ==
    /\ ~(rendered.isProcessing \/ wallet = NoWallet)
    /\ Len(invocations) < MaxInFlight
    /\ LET guard == incrementGuard(rendered, wallet)
       IN /\ state' = CASE guard = "connect" ->
                              [state EXCEPT !.errorMessage = "connectBeforeIncrement"]
                        [] guard = "remediation" ->
                              [state EXCEPT !.errorMessage = "incrementIncompatible"]
                        [] guard = "busy" -> state
                        [] OTHER -> startProcessing(state)
          /\ rendered' = IF guard = "start"
                         THEN [rendered EXCEPT !.isProcessing = state'.isProcessing]
                         ELSE rendered
          /\ invocations' =
                IF guard = "start"
                THEN Append(invocations,
                        Invocation(FreshId, "balance", wallet,
                                   rendered.counterData = NullData, <<>>))
                ELSE invocations
          /\ ev' = ClickEvent(guard, rendered = Captured(state), Len(invocations))
    /\ UNCHANGED <<wallet, chain, fetches, listeners, incompatible, sizeVars, layoutVars,
                 scanVars, selectVars, listenerVars, participants, walletFetches>>

\* getBalance settles: low balance, a failure, or the first instruction call
BalanceSettle(i, balance, failed) ==
    /\ i \in DOMAIN invocations
    /\ invocations[i].pc = "balance"
    /\ LET inv == invocations[i]
           preferred == preferredInstruction(inv.shouldInitialize, CounterInstructions)
       IN IF failed \/ balance < MIN_BALANCE_LAMPORTS \/ preferred = 0
          THEN /\ state' = finishProcessing(
                              IF failed \/ balance >= MIN_BALANCE_LAMPORTS
                              THEN incrementFailure(state, "generic")
                              ELSE insufficientBalance(state))
               /\ invocations' = RemoveAt(invocations, i)
               /\ ev' = IF failed THEN Caught(EndEvent("failed"), "getBalance")
                        ELSE IF balance < MIN_BALANCE_LAMPORTS THEN EndEvent("lowBalance")
                        ELSE EndEvent("failed")
          ELSE /\ state' = state
               /\ invocations' =
                     [invocations EXCEPT ![i] =
                         Invocation(inv.id, "rpc", inv.w, inv.shouldInitialize, <<preferred>>)]
               /\ ev' = RpcEvent(CounterInstructions[preferred].name, chain[inv.w] # "absent")
    /\ UNCHANGED <<wallet, chain, rendered, fetches, listeners, incompatible, sizeVars, layoutVars,
                 scanVars, selectVars, listenerVars, participants, walletFetches>>

\* an instruction call (the first, or the fallback) is executed
RpcSucceed(i) ==
    /\ i \in DOMAIN invocations
    /\ invocations[i].pc \in {"rpc", "fallback"}
    /\ LET inv == invocations[i]
           instr == inv.issued[Len(inv.issued)]
       IN /\ ProgramAccepts(CounterInstructions[instr].name, chain[inv.w])
          /\ chain' = [chain EXCEPT ![inv.w] = "ok"]
          /\ state' = incrementSuccess(state, inv.id)
          /\ fetches' = Notify(fetches, inv.w)
          /\ invocations' =
                [invocations EXCEPT ![i] =
                    Invocation(inv.id, "fetch", inv.w, inv.shouldInitialize, inv.issued)]
          /\ ev' = NoEvent
    /\ UNCHANGED <<wallet, rendered, listeners, incompatible, sizeVars, layoutVars,
                 scanVars, selectVars, listenerVars, participants, walletFetches>>

\* the first instruction call is rejected: the fallback call, or the catch block
RpcFail(i, kind) ==
    /\ i \in DOMAIN invocations
    /\ invocations[i].pc = "rpc"
    /\ LET inv == invocations[i]
           preferred == inv.issued[1]
           create == createInstruction(CounterInstructions)
       IN /\ kind \in RpcFailures(chain[inv.w])
          /\ IF fallbackApplies(inv.shouldInitialize, preferred, CounterInstructions)
             THEN /\ state' = state
                  /\ invocations' =
                        [invocations EXCEPT ![i] =
                            Invocation(inv.id, "fallback", inv.w, inv.shouldInitialize,
                                       Append(inv.issued, create))]
                  /\ ev' = Caught(RpcEvent(CounterInstructions[create].name,
                                            chain[inv.w] # "absent"), "rpc")
                  /\ incompatible' = incompatible
             ELSE /\ state' = finishProcessing(incrementFailure(state, kind))
                  /\ invocations' = RemoveAt(invocations, i)
                  /\ ev' = Caught(EndEvent("failed"), "rpc")
                  /\ incompatible' =
                        Learn(incompatible, inv.w,
                              IF kind = "deserialize" THEN "corrupt" ELSE "fail")
    /\ UNCHANGED <<wallet, chain, rendered, fetches, listeners, sizeVars, layoutVars,
                 scanVars, selectVars, listenerVars, participants, walletFetches>>

\* the fallback call is rejected: the catch block
FallbackFail(i, kind) ==
    /\ i \in DOMAIN invocations
    /\ invocations[i].pc = "fallback"
    /\ LET inv == invocations[i]
       IN /\ kind \in RpcFailures(chain[inv.w])
          /\ state' = finishProcessing(incrementFailure(state, kind))
          /\ invocations' = RemoveAt(invocations, i)
          /\ ev' = Caught(EndEvent("failed"), "rpc")
          /\ incompatible' =
                Learn(incompatible, inv.w, IF kind = "deserialize" THEN "corrupt" ELSE "fail")
    /\ UNCHANGED <<wallet, chain, rendered, fetches, listeners, sizeVars, layoutVars,
                 scanVars, selectVars, listenerVars, participants, walletFetches>>

\* the fetchCounter awaited by incrementCounter settles
IncrementFetchSettleCore(i, outcome) ==
    /\ i \in DOMAIN invocations
    /\ invocations[i].pc = "fetch"
    /\ LET inv == invocations[i]
       IN /\ outcome \in FetchOutcomes(chain[inv.w])
          /\ state' = fetchCounterResult(state, inv.w, outcome)
          /\ incompatible' = Learn(incompatible, inv.w, outcome)
          /\ invocations' =
                [invocations EXCEPT ![i] =
                    Invocation(inv.id, "wallets", inv.w, inv.shouldInitialize, inv.issued)]
    /\ UNCHANGED <<wallet, chain, rendered, fetches, listeners, sizeVars, layoutVars,
                 scanVars, selectVars, listenerVars, walletFetches>>

\* the awaited fetchCounter settles, the state of the participant scan left out
IncrementFetchSettle(i, outcome) ==
    /\ IncrementFetchSettleCore(i, outcome)
    /\ ev' = NoEvent
    /\ UNCHANGED participants

\* the awaited fetchCounter settles and fetchInteractingWallets is called
IncrementFetchSettleWithScan(i, outcome) ==
    /\ IncrementFetchSettleCore(i, outcome)
    /\ ev' = IF outcome \in {"corrupt", "fail"}
             THEN Caught(NoEvent, "fetchNullable") ELSE NoEvent
    /\ participants' = fetchInteractingWalletsStart(participants)

\* the fetchInteractingWallets awaited by incrementCounter settles: the finally block
IncrementEndCore(i) ==
    /\ i \in DOMAIN invocations
    /\ invocations[i].pc = "wallets"
    /\ state' = finishProcessing(state)
    /\ invocations' = RemoveAt(invocations, i)
    /\ UNCHANGED <<wallet, chain, rendered, fetches, listeners, incompatible, sizeVars, layoutVars,
                 scanVars, selectVars, listenerVars, walletFetches>>

\* the end of an invocation, the state of the participant scan left out
IncrementEnd(i) ==
    /\ IncrementEndCore(i)
    /\ ev' = EndEvent("succeeded")
    /\ UNCHANGED participants

\* the end of an invocation, with the outcome of its fetchInteractingWallets
IncrementEndWithScan(i, failed) ==
    /\ IncrementEndCore(i)
    /\ participants' = IF failed THEN fetchInteractingWalletsFailed(participants)
                     ELSE fetchInteractingWalletsLoaded(participants,
                                                        OnChainAccounts(chain))
    /\ ev' = IF failed THEN Caught(EndEvent("succeeded"), "getProgramAccounts")
             ELSE EndEvent("succeeded")

\* a fetchInteractingWallets started by an effect settles
WalletsSettle(failed) ==
    /\ walletFetches > 0
    /\ walletFetches' = walletFetches - 1
    /\ participants' = IF failed THEN fetchInteractingWalletsFailed(participants)
                     ELSE fetchInteractingWalletsLoaded(participants,
                                                        OnChainAccounts(chain))
    /\ ev' = IF failed THEN Caught(NoEvent, "getProgramAccounts") ELSE NoEvent
    /\ UNCHANGED <<wallet, chain, state, rendered, fetches, listeners, invocations,
                   incompatible, sizeVars, layoutVars, scanVars, selectVars, listenerVars>>

Next ==
    \/ \E w2 \in Wallets \cup {NoWallet} : WalletChange(w2)
    \/ Render
    \/ \E w \in Wallets, a \in AccountStates : ChainEvent(w, a)
    \/ \E w \in Wallets, outcome \in AccountStates \cup {"fail"} : FetchSettle(w, outcome)
    \/ Click
    \/ \E i \in 1..MaxInFlight, b \in Balances, failed \in BOOLEAN : BalanceSettle(i, b, failed)
    \/ \E i \in 1..MaxInFlight : RpcSucceed(i)
    \/ \E i \in 1..MaxInFlight, kind \in {"generic", "mismatch", "deserialize"} : RpcFail(i, kind)
    \/ \E i \in 1..MaxInFlight, kind \in {"generic", "mismatch", "deserialize"} : FallbackFail(i, kind)
    \/ \E i \in 1..MaxInFlight, outcome \in AccountStates \cup {"fail"} : IncrementFetchSettle(i, outcome)
    \/ \E i \in 1..MaxInFlight : IncrementEnd(i)

Spec == Init /\ [][Next]_vars

----------------------------------------------------------------------------
(* The component with one wallet and the state of the participant scan *)

HandlerWallets == {"A"}

InitHandlers ==
    /\ wallet = NoWallet
    /\ chain \in {c \in [Wallets -> AccountStates] :
                    \A w \in Wallets \ HandlerWallets : c[w] = "absent"}
    /\ state = fetchCounterNoProgram(resetOnWalletChange(InitialState))
    /\ rendered = Captured(InitialState)
    /\ fetches = [w \in Wallets |-> 0]
    /\ listeners = {}
    /\ invocations = <<>>
    /\ incompatible = [w \in Wallets |-> FALSE]
    /\ ev = NoEvent
    /\ participants = fetchInteractingWalletsStart(InitialParticipants)
    /\ walletFetches = 1
    /\ SizeIdle
    /\ LayoutIdle
    /\ ScanIdle
    /\ SelectIdle
    /\ ListenerIdle

NextHandlers ==
    \/ \E w2 \in HandlerWallets \cup {NoWallet} : WalletChangeWithScan(w2)
    \/ Render
    \/ \E w \in HandlerWallets, a \in AccountStates : ChainEvent(w, a)
    \/ \E w \in HandlerWallets, outcome \in AccountStates \cup {"fail"} :
          FetchSettleObserved(w, outcome)
    \/ Click
    \/ \E i \in 1..MaxInFlight, b \in Balances, failed \in BOOLEAN : BalanceSettle(i, b, failed)
    \/ \E i \in 1..MaxInFlight : RpcSucceed(i)
    \/ \E i \in 1..MaxInFlight, kind \in {"generic", "mismatch", "deserialize"} : RpcFail(i, kind)
    \/ \E i \in 1..MaxInFlight, kind \in {"generic", "mismatch", "deserialize"} : FallbackFail(i, kind)
    \/ \E i \in 1..MaxInFlight, outcome \in AccountStates \cup {"fail"} :
          IncrementFetchSettleWithScan(i, outcome)
    \/ \E i \in 1..MaxInFlight, failed \in BOOLEAN : IncrementEndWithScan(i, failed)
    \/ \E failed \in BOOLEAN : WalletsSettle(failed)

SpecHandlers == InitHandlers /\ [][NextHandlers]_vars

----------------------------------------------------------------------------
(* The component with one wallet, every promise of an invocation settling *)

InitOneWallet ==
    /\ Init
    /\ \A w \in Wallets \ HandlerWallets : chain[w] = "absent"

\* a promise awaited by an incrementCounter invocation settles
SettleIncrement ==
    \E i \in 1..MaxInFlight :
        \/ \E b \in Balances, failed \in BOOLEAN : BalanceSettle(i, b, failed)
        \/ RpcSucceed(i)
        \/ \E kind \in {"generic", "mismatch", "deserialize"} : RpcFail(i, kind)
        \/ \E kind \in {"generic", "mismatch", "deserialize"} : FallbackFail(i, kind)
        \/ \E outcome \in AccountStates \cup {"fail"} : IncrementFetchSettle(i, outcome)
        \/ IncrementEnd(i)

NextOneWallet ==
    \/ \E w2 \in HandlerWallets \cup {NoWallet} : WalletChange(w2)
    \/ Render
    \/ \E w \in HandlerWallets, a \in AccountStates : ChainEvent(w, a)
    \/ \E w \in HandlerWallets, outcome \in AccountStates \cup {"fail"} : FetchSettle(w, outcome)
    \/ Click
    \/ SettleIncrement

SpecLive == InitOneWallet /\ [][NextOneWallet]_vars /\ WF_vars(SettleIncrement)

----------------------------------------------------------------------------
(* The instruction selection on the instruction lists an IDL can hold *)

Instruction(name, accounts) == [name |-> name, accounts |-> accounts]

SampleInstructions ==
    {Instruction("createCounter", <<"authority", "counter", "systemProgram">>),
     Instruction("initialize", <<"payer", "system_program">>),
     Instruction("updateCounter", <<"authority", "counter">>),
     Instruction("closeCounter", <<"authority", "SystemProgram">>),
     Instruction("noop", <<>>)}

InitSelect ==
    /\ instructionList \in SeqsUpTo(SampleInstructions, MaxInstructions)
    /\ selected = NothingSelected
    /\ SizeIdle
    /\ LayoutIdle
    /\ ComponentIdle
    /\ ScanIdle
    /\ ListenerIdle

\* the useMemo that picks createInstruction and updateInstruction
SelectInstructions ==
    /\ ~selected.done
    /\ selected' = [done |-> TRUE,
                    createInstruction |-> createInstruction(instructionList),
                    updateInstruction |-> updateInstruction(instructionList)]
    /\ UNCHANGED <<instructionList, sizeVars, layoutVars, componentVars, scanVars,
                   listenerVars>>

NextSelect == SelectInstructions

SpecSelect == InitSelect /\ [][NextSelect]_vars

----------------------------------------------------------------------------
(* The participant scan on the accounts getProgramAccounts can return *)

\* accounts of two authorities, two of them of the same authority, and one cut
\* short; the four high bytes of every count are 0
SampleAccounts ==
    {AccountData(KeyBytes("A"), <<1>>),
     AccountData(KeyBytes("A"), <<44, 1>>),
     AccountData(KeyBytes("B"), <<0, 1>>),
     SubSeq(AccountData(KeyBytes("B"), <<7>>), 1, 40)}

InitScan ==
    /\ programAccounts \in SeqsUpTo(SampleAccounts, MaxAccounts)
    /\ readCall = NoRead
    /\ participants = fetchInteractingWalletsStart(InitialParticipants)
    /\ walletFetches = 1
    /\ ev = NoEvent
    /\ CounterIdle
    /\ SizeIdle
    /\ LayoutIdle
    /\ SelectIdle
    /\ ListenerIdle

\* fetchInteractingWallets is called, by the effect or by incrementCounter
ScanStart ==
    /\ walletFetches < MaxPendingFetches
    /\ walletFetches' = walletFetches + 1
    /\ participants' = fetchInteractingWalletsStart(participants)
    /\ ev' = NoEvent
    /\ UNCHANGED <<counterVars, sizeVars, layoutVars, scanVars, selectVars, listenerVars>>

\* getProgramAccounts settles
ScanSettle(failed) ==
    /\ walletFetches > 0
    /\ walletFetches' = walletFetches - 1
    /\ participants' = IF failed THEN fetchInteractingWalletsFailed(participants)
                     ELSE fetchInteractingWalletsLoaded(participants, programAccounts)
    /\ ev' = IF failed THEN Caught(ScanEvent("failed"), "getProgramAccounts")
             ELSE ScanEvent("loaded")
    /\ UNCHANGED <<counterVars, sizeVars, layoutVars, scanVars, selectVars, listenerVars>>

NextScan ==
    \/ ScanStart
    \/ \E failed \in BOOLEAN : ScanSettle(failed)

SpecScan == InitScan /\ [][NextScan]_vars

----------------------------------------------------------------------------
(* readUint64LE on the buffers and offsets it can be handed *)

SampleBytes == {0, 1, 255}
ReadOffsets == {0, 1, 2}

ReadCall(buffer, offset, outcome, value) ==
    [buffer |-> buffer, offset |-> offset, outcome |-> outcome, value |-> value]

InitRead ==
    /\ readCall \in {ReadCall(b, o, "called", Zero64) :
                        b \in SeqsUpTo(SampleBytes, MaxBufferLen), o \in ReadOffsets}
    /\ programAccounts = <<>>
    /\ SizeIdle
    /\ LayoutIdle
    /\ ComponentIdle
    /\ SelectIdle
    /\ ListenerIdle

\* the call returns a value or throws
ReadUint64LE ==
    /\ readCall.outcome = "called"
    /\ LET result == readUint64LE(readCall.buffer, readCall.offset)
       IN readCall' = IF result = ReadError
                      THEN ReadCall(readCall.buffer, readCall.offset, "error", Zero64)
                      ELSE ReadCall(readCall.buffer, readCall.offset, "value", result)
    /\ UNCHANGED <<programAccounts, sizeVars, layoutVars, componentVars, selectVars,
                   listenerVars>>

NextRead == ReadUint64LE

SpecRead == InitRead /\ [][NextRead]_vars

----------------------------------------------------------------------------
(* counter-state.tsx, both revisions: the subscribing effect *)

\* the values of the effect's dependencies: the connection in the earlier
\* revision, the wallet (program, counterPDA, fetchCounter) in the later one
EffectKeys(rev) == IF rev = "earlier" THEN {"rpc1", "rpc2"} ELSE Wallets \cup {NoWallet}

Subscription(id, key, status) == [id |-> id, key |-> key, status |-> status]

\* the id onAccountChange returns: one no registered listener has
FreshSubscriptionId ==
    CHOOSE n \in 1..(MaxListeners + 1) :
        /\ \A i \in DOMAIN subscriptions : subscriptions[i].id # n
        /\ \A m \in 1..(n - 1) : \E i \in DOMAIN subscriptions : subscriptions[i].id = m

\* the later revision returns before onAccountChange when there is no program
registersListener(rev, key) == rev = "earlier" \/ key # NoWallet

\* the effect body: what it leaves in its closure
effectRun(rev, key) ==
    [key |-> key,
     subscriptionId |-> IF registersListener(rev, key) THEN FreshSubscriptionId ELSE 0]

subscriptionsAfterRun(subs, rev, key) ==
    IF registersListener(rev, key)
    THEN Append(subs, Subscription(FreshSubscriptionId, key, "active"))
    ELSE subs

\* mutant: the cleanup does not call removeAccountChangeListener
effectCleanup_NoRemoval(subs, e) == subs

\* the effect's cleanup: removeAccountChangeListener(subscriptionId) is called
effectCleanup(subs, e) ==
    [i \in 1..Len(subs) |->
        IF e.subscriptionId # 0 /\ subs[i].id = e.subscriptionId
        THEN [subs[i] EXCEPT !.status = "removing"]
        ELSE subs[i]]

InitListeners ==
    /\ componentRev \in {"earlier", "later"}
    /\ mounted = FALSE
    /\ effect = NoEffect
    /\ subscriptions = <<>>
    /\ EarlierIdle
    /\ SizeIdle
    /\ LayoutIdle
    /\ ComponentIdle
    /\ ScanIdle
    /\ SelectIdle

\* the component mounts and its effect runs
Mount(key) ==
    /\ ~mounted
    /\ key \in EffectKeys(componentRev)
    /\ Len(subscriptions) < MaxListeners
    /\ mounted' = TRUE
    /\ effect' = effectRun(componentRev, key)
    /\ subscriptions' = subscriptionsAfterRun(subscriptions, componentRev, key)
    /\ UNCHANGED <<earlierVars, componentRev, sizeVars, layoutVars, componentVars, scanVars, selectVars>>

\* a dependency changes: the cleanup of the last run, then the effect again
DependencyChange(key) ==
    /\ mounted
    /\ key \in EffectKeys(componentRev)
    /\ key # effect.key
    /\ Len(subscriptions) < MaxListeners
    /\ effect' = effectRun(componentRev, key)
    /\ subscriptions' =
          LET cleaned == effectCleanup(subscriptions, effect)
          IN IF registersListener(componentRev, key)
             THEN Append(cleaned, Subscription(FreshSubscriptionId, key, "active"))
             ELSE cleaned
    /\ UNCHANGED <<earlierVars, componentRev, mounted, sizeVars, layoutVars, componentVars, scanVars,
                   selectVars>>

\* the component unmounts: the cleanup of the last run
Unmount ==
    /\ mounted
    /\ mounted' = FALSE
    /\ effect' = NoEffect
    /\ subscriptions' = effectCleanup(subscriptions, effect)
    /\ UNCHANGED <<earlierVars, componentRev, sizeVars, layoutVars, componentVars, scanVars, selectVars>>

\* the promise of removeAccountChangeListener resolves: the listener is gone
RemovalResolves(i) ==
    /\ i \in DOMAIN subscriptions
    /\ subscriptions[i].status = "removing"
    /\ subscriptions' = RemoveAt(subscriptions, i)
    /\ UNCHANGED <<earlierVars, componentRev, mounted, effect, sizeVars, layoutVars, componentVars,
                   scanVars, selectVars>>

\* the promise rejects: the catch logs the error, and the listener stays
\* registered with the connection
RemovalRejects(i) ==
    /\ i \in DOMAIN subscriptions
    /\ subscriptions[i].status = "removing"
    /\ subscriptions' = [subscriptions EXCEPT ![i].status = "registered"]
    /\ UNCHANGED <<earlierVars, componentRev, mounted, effect, sizeVars, layoutVars, componentVars,
                   scanVars, selectVars>>

NextListeners ==
    \/ \E key \in {"rpc1", "rpc2"} \cup Wallets \cup {NoWallet} : Mount(key)
    \/ \E key \in {"rpc1", "rpc2"} \cup Wallets \cup {NoWallet} : DependencyChange(key)
    \/ Unmount
    \/ \E i \in 1..MaxListeners : RemovalResolves(i)
    \/ \E i \in 1..MaxListeners : RemovalRejects(i)

SpecListeners == InitListeners /\ [][NextListeners]_vars

----------------------------------------------------------------------------
(* earlier counter-state.tsx: the effect, its isMounted flag and callbacks *)

Connections == {"rpc1", "rpc2"}

AccountInfo(decodable, data) == [present |-> TRUE, decodable |-> decodable, data |-> data]

\* the accounts a getAccountInfo or a notification can deliver: two that
\* decode to different counter data and one that does not decode
AccountInfos == {AccountInfo(TRUE, "c1"), AccountInfo(TRUE, "c2"), AccountInfo(FALSE, NullData)}

\* mutant: the setters are called whatever isMounted is
decodeAndSet_Unguarded(v, isMounted, accountInfo) ==
    IF accountInfo.decodable
    THEN [counterData |-> accountInfo.data, errorMessage |-> "none"]
    ELSE [v EXCEPT !.errorMessage = "decodeFailed"]

decodeAndSet(v, isMounted, accountInfo) ==
    IF accountInfo.decodable
    THEN IF isMounted THEN [counterData |-> accountInfo.data, errorMessage |-> "none"] ELSE v
    ELSE IF isMounted THEN [v EXCEPT !.errorMessage = "decodeFailed"] ELSE v

\* the body of fetchCounterData after getAccountInfo has settled
fetchCounterData(v, isMounted, failed, accountInfo) ==
    IF failed
    THEN IF isMounted THEN [v EXCEPT !.errorMessage = "fetchFailed"] ELSE v
    ELSE IF ~accountInfo.present
         THEN IF isMounted THEN [counterData |-> NullData, errorMessage |-> "notFound"] ELSE v
         ELSE decodeAndSet(v, isMounted, accountInfo)

\* one run of the effect: its closure variable isMounted, the getAccountInfo
\* it awaits and the listener it registered
EffectRun(connection, isMounted, fetch, listener) ==
    [connection |-> connection, isMounted |-> isMounted, fetch |-> fetch, listener |-> listener]

\* the effect body up to its return
earlierEffect(connection) == EffectRun(connection, TRUE, "pending", "active")

\* the cleanup: isMounted = false; removeAccountChangeListener(subscriptionId)
earlierCleanup(runs) ==
    [r \in 1..Len(runs) |->
        IF runs[r].isMounted
        THEN EffectRun(runs[r].connection, FALSE, runs[r].fetch, "removing")
        ELSE runs[r]]

Callback(r, kind, accountInfo) ==
    [run |-> r, kind |-> kind, wasMounted |-> effectRuns[r].isMounted,
     accountInfo |-> accountInfo]

InitEarlier ==
    /\ componentRev = "earlier"
    /\ mounted = FALSE
    /\ effect = NoEffect
    /\ subscriptions = <<>>
    /\ EarlierIdle
    /\ SizeIdle
    /\ LayoutIdle
    /\ ComponentIdle
    /\ ScanIdle
    /\ SelectIdle

\* the component mounts (a new instance): the effect runs
EarlierMount(connection) ==
    /\ \A r \in DOMAIN effectRuns : ~effectRuns[r].isMounted
    /\ Len(effectRuns) < MaxRuns
    /\ effectRuns' = Append(effectRuns, earlierEffect(connection))
    /\ view' = InitialView
    /\ callback' = NoCallback
    /\ UNCHANGED <<componentRev, mounted, effect, subscriptions, sizeVars, layoutVars,
                   componentVars, scanVars, selectVars>>

\* useConnection returns another connection: the cleanup, then the effect
ConnectionChange(connection) ==
    /\ \E r \in DOMAIN effectRuns :
          effectRuns[r].isMounted /\ effectRuns[r].connection # connection
    /\ Len(effectRuns) < MaxRuns
    /\ effectRuns' = Append(earlierCleanup(effectRuns), earlierEffect(connection))
    /\ callback' = NoCallback
    /\ UNCHANGED <<view, componentRev, mounted, effect, subscriptions, sizeVars, layoutVars,
                   componentVars, scanVars, selectVars>>

\* the component unmounts: the cleanup
EarlierUnmount ==
    /\ \E r \in DOMAIN effectRuns : effectRuns[r].isMounted
    /\ effectRuns' = earlierCleanup(effectRuns)
    /\ callback' = NoCallback
    /\ UNCHANGED <<view, componentRev, mounted, effect, subscriptions, sizeVars, layoutVars,
                   componentVars, scanVars, selectVars>>

\* the getAccountInfo of run r settles: the rest of fetchCounterData
GetAccountInfoSettles(r, failed, accountInfo) ==
    /\ r \in DOMAIN effectRuns
    /\ effectRuns[r].fetch = "pending"
    /\ effectRuns' = [effectRuns EXCEPT ![r].fetch = "settled"]
    /\ view' = fetchCounterData(view, effectRuns[r].isMounted, failed, accountInfo)
    /\ callback' = Callback(r, "fetch", accountInfo)
    /\ UNCHANGED <<componentRev, mounted, effect, subscriptions, sizeVars, layoutVars,
                   componentVars, scanVars, selectVars>>

\* the listener of run r is notified of a change of the account
AccountChanged(r, accountInfo) ==
    /\ r \in DOMAIN effectRuns
    /\ effectRuns[r].listener \in {"active", "removing", "registered"}
    /\ accountInfo.present
    /\ view' = decodeAndSet(view, effectRuns[r].isMounted, accountInfo)
    /\ callback' = Callback(r, "notify", accountInfo)
    /\ UNCHANGED <<effectRuns, componentRev, mounted, effect, subscriptions, sizeVars,
                   layoutVars, componentVars, scanVars, selectVars>>

\* removeAccountChangeListener resolves, or rejects and the catch logs it
ListenerRemoval(r, rejected) ==
    /\ r \in DOMAIN effectRuns
    /\ effectRuns[r].listener = "removing"
    /\ effectRuns' =
          [effectRuns EXCEPT ![r].listener = IF rejected THEN "registered" ELSE "removed"]
    /\ callback' = NoCallback
    /\ UNCHANGED <<view, componentRev, mounted, effect, subscriptions, sizeVars, layoutVars,
                   componentVars, scanVars, selectVars>>

NextEarlier ==
    \/ \E connection \in Connections : EarlierMount(connection)
    \/ \E connection \in Connections : ConnectionChange(connection)
    \/ EarlierUnmount
    \/ \E r \in 1..MaxRuns, failed \in BOOLEAN, accountInfo \in AccountInfos \cup {NoAccountInfo} :
          GetAccountInfoSettles(r, failed, accountInfo)
    \/ \E r \in 1..MaxRuns, accountInfo \in AccountInfos : AccountChanged(r, accountInfo)
    \/ \E r \in 1..MaxRuns, rejected \in BOOLEAN : ListenerRemoval(r, rejected)

SpecEarlier == InitEarlier /\ [][NextEarlier]_vars

----------------------------------------------------------------------------
(* Width table of the size inferencer's contract *)

RECURSIVE InTable(_)
InTable(t) ==
    CASE t.k = "prim" -> t.name \in SizedPrimitives
      [] t.k = "array" -> t.lenIsNumber /\ InTable(t.elem)
      [] t.k \in {"option", "coption"} -> InTable(t.inner)
      [] OTHER -> FALSE

RECURSIVE TableWidth(_)
TableWidth(t) ==
    CASE t.k = "prim" /\ t.name \in {"bool", "u8", "i8"} -> 1
      [] t.k = "prim" /\ t.name \in {"u16", "i16"} -> 2
      [] t.k = "prim" /\ t.name \in {"u32", "i32", "f32"} -> 4
      [] t.k = "prim" /\ t.name \in {"u64", "i64", "f64"} -> 8
      [] t.k = "prim" /\ t.name \in {"u128", "i128"} -> 16
      [] t.k = "array" -> t.len * TableWidth(t.elem)
      [] t.k \in {"option", "coption"} -> 1 + TableWidth(t.inner)

\* sum of TableWidth over the fields at the indices in I
RECURSIVE SumWidths(_, _)
SumWidths(fields, I) ==
    IF I = {} THEN 0
    ELSE LET i == CHOOSE j \in I : TRUE
         IN TableWidth(fields[i]) + SumWidths(fields, I \ {i})

Unsupported(t) == t.k \in {"vec", "defined", "generic"}

IsStructWithFields(td) == td.present /\ td.type.kind = "struct" /\ td.type.hasFields

FieldPermutations(n) == {p \in [1..n -> 1..n] : \A i, j \in 1..n : p[i] = p[j] => i = j}

Permuted(td, p) ==
    TypeDef(td.name, Struct(td.type.named, [i \in 1..Len(td.type.fields) |-> td.type.fields[p[i]]]))


----------------------------------------------------------------------------
(* C1: for the counter schema {authority: pubkey, count: u64} the computed *)
(* struct size is 40 and ensureAccountLayout writes account size 48, the   *)
(* dataSize that fetchInteractingWallets filters on.                        *)
C1_CounterLayoutIs48 ==
    (revision = "later" /\ calls = 1 /\ idlBefore = CounterIdl) =>
        /\ computeStructSize(CounterTypeDef(idlBefore)) = 40
        /\ CounterAccount(idl).size = NumberSize(8 + 40)
        /\ CounterAccount(idl).size = NumberSize(ParticipantDataSize)

(* C2: for a struct whose fields are built only from sized primitives,     *)
(* fixed-length arrays and optionals, computeStructSize returns the sum of *)
(* the fields' table widths.                                                *)
C2_SizeIsSumOfWidths ==
    (computed /\ IsStructWithFields(typeDef)
        /\ \A i \in 1..Len(typeDef.type.fields) : InTable(typeDef.type.fields[i])) =>
        structSize = SumWidths(typeDef.type.fields, 1..Len(typeDef.type.fields))

C2_Witness ==
    /\ computed
    /\ IsStructWithFields(typeDef)
    /\ Len(typeDef.type.fields) >= 2
    /\ \A i \in 1..Len(typeDef.type.fields) : InTable(typeDef.type.fields[i])
    /\ typeDef.type.fields[1] = Option(Array(Prim("u8"), 3))
    /\ typeDef.type.fields[2] = Prim("f32")
    /\ structSize = 8

(* C3: computeStructSize does not fail on a struct with a vector, named    *)
(* reference or generic field: it returns a number, the sum of the widths  *)
(* of the other fields, the unsupported field adding 0.                    *)
C3_UnsupportedFieldAddsZero ==
    (computed /\ IsStructWithFields(typeDef)
        /\ (\E j \in 1..Len(typeDef.type.fields) : Unsupported(typeDef.type.fields[j]))
        /\ \A i \in 1..Len(typeDef.type.fields) :
              Unsupported(typeDef.type.fields[i]) \/ InTable(typeDef.type.fields[i])) =>
        /\ structSize # NullSize
        /\ structSize = SumWidths(typeDef.type.fields,
                            {i \in 1..Len(typeDef.type.fields) : InTable(typeDef.type.fields[i])})

C3_Witness ==
    /\ computed
    /\ IsStructWithFields(typeDef)
    /\ Len(typeDef.type.fields) = 2
    /\ typeDef.type.fields[1] = Vec(Prim("u8"))
    /\ typeDef.type.fields[2] = Prim("u64")
    /\ structSize = 8

(* C4: a second application of ensureAccountLayout leaves the counter      *)
(* account's size as the first application left it.                        *)
C4_SizeIdempotent ==
    calls >= 2 => SizeOfCounter(idl, revision) = sizeAfterFirst

C4_Witness ==
    /\ calls = 2
    /\ revision = "later"
    /\ SizeOfCounter(idlBefore, revision) = NumberSize(8 + 9)
    /\ sizeAfterFirst = NumberSize(8 + 9)
    /\ SizeOfCounter(idl, revision) = sizeAfterFirst

\* the struct size the loaded revision computes for a document
RevisionStructSize(doc, rev) ==
    IF rev = "later"
    THEN computeStructSize(CounterTypeDef(doc))
    ELSE LET ti == FirstIndex({i \in DOMAIN doc.types : doc.types[i].name = "counter"})
         IN earlierStructSize(IF ti = 0 THEN NoTypeDef ELSE doc.types[ti])

C6_FieldOrderIndependent ==
    (computed /\ IsStructWithFields(typeDef)) =>
        \A p \in FieldPermutations(Len(typeDef.type.fields)) :
            computeStructSize(Permuted(typeDef, p)) = structSize

C6_Witness ==
    /\ computed
    /\ IsStructWithFields(typeDef)
    /\ Len(typeDef.type.fields) = 2
    /\ typeDef.type.fields[1] = Prim("u8")
    /\ typeDef.type.fields[2] = Prim("u64")
    /\ structSize = 9
    /\ computeStructSize(Permuted(typeDef, <<2, 1>>)) = 9

----------------------------------------------------------------------------
(* C7: at most one incrementCounter invocation is between its getBalance   *)
(* call and its completion, so no two instruction calls are outstanding.   *)
C7_OneWriteInFlight ==
    /\ Len(invocations) <= 1
    /\ Cardinality({i \in DOMAIN invocations : invocations[i].pc \in {"rpc", "fallback"}}) <= 1

\* a second invocation awaits its instruction call, the first one having
\* succeeded and its signature being the one displayed when the click came
C7_Witness ==
    /\ Len(invocations) = 1
    /\ invocations[1].pc = "rpc"
    /\ invocations[1].id = 2
    /\ state.isProcessing
    /\ rendered.isProcessing

IncrementFailureMessages == {"incrementStale", "programIdMismatch", "incrementFailed"}

C9_CreateIffAbsent ==
    ev.type = "rpc" => (ev.instr = "createCounter" <=> ~ev.existed)

----------------------------------------------------------------------------
----------------------------------------------------------------------------
\* the listeners that are registered and whose removal was not requested or
\* was rejected
ListenersLeft ==
    {i \in DOMAIN subscriptions : subscriptions[i].status \in {"active", "registered"}}

(* C12 as stated: every listener the component registers is removed when   *)
(* its effect is torn down, so at most one listener is active and none is  *)
(* after unmount.                                                           *)
C12_ListenersRemoved ==
    /\ Cardinality(ListenersLeft) <= 1
    /\ ~mounted => ListenersLeft = {}

(* C12 amended: for every listener the component registers, removal is     *)
(* requested when its effect is torn down: at most one listener has no     *)
(* removal requested, it is the one of the current effect, and there is    *)
(* none after unmount.                                                      *)
C12_RemovalRequested ==
    LET active == {i \in DOMAIN subscriptions : subscriptions[i].status = "active"}
    IN /\ Cardinality(active) <= 1
       /\ \A i \in active :
             /\ mounted
             /\ subscriptions[i].id = effect.subscriptionId
             /\ subscriptions[i].key = effect.key
       /\ ~mounted => active = {}
       /\ (mounted /\ registersListener(componentRev, effect.key)) => active # {}

\* after a dependency change the listener of the torn-down effect awaits its
\* removal and the listener of the new effect is active
C12_Witness ==
    /\ mounted
    /\ \E i, j \in DOMAIN subscriptions :
          /\ subscriptions[i].status = "removing"
          /\ subscriptions[j].status = "active"
          /\ subscriptions[j].id = effect.subscriptionId
          /\ subscriptions[i].key # subscriptions[j].key

----------------------------------------------------------------------------
\* the account entry an application of ensureAccountLayout may annotate
AnnotatedIndex(doc) ==
    IF revision = "later" THEN CounterAccountIndex(doc) ELSE EarlierAccountIndex(doc)

(* C13: an application of ensureAccountLayout (and the size inference it   *)
(* runs) leaves the types of the document, the number and the names of its *)
(* account entries and every other account entry unchanged; it changes at  *)
(* most the size and type attributes of the entry named counter or Counter, *)
(* and nothing when there is no such entry.                                 *)
C13_OnlyCounterSizeAndType ==
    calls > 0 =>
        /\ idl.types = idlBefore.types
        /\ Len(idl.accounts) = Len(idlBefore.accounts)
        /\ \A i \in DOMAIN idlBefore.accounts :
              /\ idl.accounts[i].name = idlBefore.accounts[i].name
              /\ idl.accounts[i] # idlBefore.accounts[i] =>
                    /\ i = AnnotatedIndex(idlBefore)
                    /\ accountMatches(idlBefore.accounts[i].name)
        /\ AnnotatedIndex(idlBefore) = 0 => idl = idlBefore

\* the first of two entries with a matching name was annotated, the second
\* and the types were not
C13_Witness ==
    /\ calls = 1
    /\ Len(idl.accounts) = 2
    /\ idl.accounts[1] # idlBefore.accounts[1]
    /\ accountMatches(idl.accounts[2].name)
    /\ idl.accounts[2] = idlBefore.accounts[2]
    /\ idl.types # <<>>

----------------------------------------------------------------------------
(* C14: whatever order the fetches, listener callbacks and increment calls *)
(* started under another wallet settle in, the counterData displayed while  *)
(* a wallet is connected is never the one fetched for another wallet's      *)
(* counter account.                                                          *)
C14_NoOtherWalletData ==
    wallet # NoWallet => state.counterData \in {NullData, wallet}

----------------------------------------------------------------------------
(* C15: provided every promise an invocation awaits settles, isProcessing  *)
(* once set to true is eventually set back to false.                       *)
C15_ProcessingEnds == state.isProcessing ~> ~state.isProcessing

\* an invocation that went through the fallback call has ended and left
\* isProcessing false
C15_Witness ==
    /\ ev.type = "incrementEnd"
    /\ ev.result = "succeeded"
    /\ ~state.isProcessing
    /\ state.txSignature # NoSignature
    /\ invocations = <<>>

----------------------------------------------------------------------------
\* the instruction at index i lists the system program
ListsSystemProgram(i) ==
    \E k \in 1..Len(instructionList[i].accounts) :
        instructionList[i].accounts[k] = "systemProgram"
            \/ instructionList[i].accounts[k] = "system_program"

(* C16: createInstruction is the first instruction that lists an account   *)
(* named systemProgram or system_program, null if none does;               *)
(* updateInstruction is the first instruction that is not createInstruction; *)
(* the two differ when both are non-null, and updateInstruction is the     *)
(* first of the list when no instruction lists the system program.         *)
C16_InstructionSelection ==
    selected.done =>
        LET c == selected.createInstruction
            u == selected.updateInstruction
            n == Len(instructionList)
        IN /\ c \in 0..n
           /\ u \in 0..n
           /\ c # 0 => ListsSystemProgram(c) /\ \A j \in 1..(c - 1) : ~ListsSystemProgram(j)
           /\ c = 0 => \A j \in 1..n : ~ListsSystemProgram(j)
           /\ u # 0 => u # c /\ \A j \in 1..(u - 1) : j = c
           /\ u = 0 => \A j \in 1..n : j = c
           /\ (c # 0 /\ u # 0) => c # u
           /\ (c = 0 /\ n > 0) => u = 1

\* the first instruction lists the system program and the update instruction
\* is the second
C16_Witness ==
    /\ selected.done
    /\ selected.createInstruction = 1
    /\ selected.updateInstruction = 2
    /\ Len(instructionList) = 3

----------------------------------------------------------------------------
\* the authority and the count the layout puts in a 48-byte account: bytes
\* 8..39, and the little-endian number in bytes 40..47 (the high four are 0)
LayoutAddress(data) == [k \in 1..32 |-> data[8 + k]]
LayoutCount(data) == data[41] + data[42] * 256 + data[43] * 65536 + data[44] * 16777216

\* the decimal digits d, most significant first, denote n
RECURSIVE DigitsValue(_)
DigitsValue(d) ==
    IF d = <<>> THEN 0 ELSE 10 * DigitsValue(SubSeq(d, 1, Len(d) - 1)) + d[Len(d)]

\* the accounts long enough to be decoded
Decodable == {i \in DOMAIN programAccounts : Len(programAccounts[i]) >= 48}

\* the index of the first decodable account with the authority of account i
FirstOfAuthority(i) ==
    CHOOSE j \in Decodable :
        /\ LayoutAddress(programAccounts[j]) = LayoutAddress(programAccounts[i])
        /\ \A k \in Decodable :
              LayoutAddress(programAccounts[k]) = LayoutAddress(programAccounts[i]) => j <= k

(* C17: a fetchInteractingWallets that succeeded leaves a list with one    *)
(* entry per authority, that of the first account of the authority, in the *)
(* order the accounts were returned, with the address from bytes 8..39 and *)
(* the count from bytes 40..47; one that failed leaves the list empty and  *)
(* participantsError set; both leave isLoadingParticipants false.          *)
C17_ParticipantList ==
    LET list == participants.interactingWallets
        firsts == {FirstOfAuthority(i) : i \in Decodable}
    IN /\ (ev.type = "scan" /\ ev.result = "loaded") =>
             /\ \A k, l \in DOMAIN list : list[k].address = list[l].address => k = l
             /\ Len(list) = Cardinality(firsts)
             /\ \A k \in DOMAIN list :
                   \E i \in firsts :
                       /\ list[k].address.base58 = LayoutAddress(programAccounts[i])
                       /\ DigitsValue(list[k].count) = LayoutCount(programAccounts[i])
                       /\ Cardinality({j \in firsts : j < i}) = k - 1
             /\ ~participants.isLoadingParticipants
       /\ (ev.type = "scan" /\ ev.result = "failed") =>
             /\ list = <<>>
             /\ participants.participantsError # "none"
             /\ ~participants.isLoadingParticipants

\* three accounts were returned, two of one authority: two entries, the
\* second with count 256
C17_Witness ==
    /\ ev = ScanEvent("loaded")
    /\ Len(programAccounts) = 3
    /\ Len(participants.interactingWallets) = 2
    /\ participants.interactingWallets[1].count = <<1>>
    /\ participants.interactingWallets[2].count = <<2, 5, 6>>

----------------------------------------------------------------------------
(* C18: whenever hasCorruptedCounter is true, counterData is null.         *)
C18_CorruptedShowsNoData ==
    state.hasCorruptedCounter => state.counterData = NullData

----------------------------------------------------------------------------
(* C19: the step in which getBalance returns less than MIN_BALANCE_LAMPORTS *)
(* ends the invocation at its balance query, with no instruction call       *)
(* issued and nothing sent to the chain; it sets the fund-your-wallet      *)
(* message, leaves counterData, hasCorruptedCounter and txSignature (null  *)
(* since the start of the invocation) as they were, and leaves             *)
(* isProcessing false.                                                     *)
C19_LowBalanceStops ==
    [][(ev'.type = "incrementEnd" /\ ev'.result = "lowBalance") =>
          /\ \E i \in DOMAIN invocations :
                /\ invocations[i].pc = "balance"
                /\ invocations[i].issued = <<>>
                /\ invocations' = RemoveAt(invocations, i)
          /\ chain' = chain
          /\ fetches' = fetches
          /\ state'.errorMessage = "needsSol"
          /\ state'.counterData = state.counterData
          /\ state'.hasCorruptedCounter = state.hasCorruptedCounter
          /\ state'.txSignature = state.txSignature
          /\ state'.txSignature = NoSignature
          /\ ~state'.isProcessing]_vars

\* an invocation has ended on a low balance while a decoded counter is shown
C19_Witness ==
    /\ ev = EndEvent("lowBalance")
    /\ state.errorMessage = "needsSol"
    /\ state.counterData # NullData
    /\ ~state.isProcessing

----------------------------------------------------------------------------
\* the invocations in flight, as a set
InFlight == {invocations[i] : i \in DOMAIN invocations}

\* the invocations whose instruction call has succeeded
Succeeded == {inv \in InFlight : inv.pc \in {"fetch", "wallets"}}

(* C20: the step in which an instruction call succeeds sets txSignature to *)
(* the signature returned; the invocation then awaits fetchCounter, then   *)
(* fetchInteractingWallets, and isProcessing is true until both have       *)
(* settled. txSignature is null from the start of an attempt until its     *)
(* call succeeds, and becomes non-null only by the success of the one      *)
(* attempt in flight: a non-null txSignature is that of the most recent    *)
(* attempt.                                                                *)
C20_SignatureThenRefresh ==
    /\ [](\A inv \in InFlight :
             /\ inv.pc \in {"balance", "rpc", "fallback"} => state.txSignature = NoSignature
             /\ inv.pc \in {"fetch", "wallets"} =>
                   /\ state.isProcessing
                   /\ state.txSignature \in {inv.id, NoSignature})
    /\ [][/\ \A new \in Succeeded' :
                \E old \in InFlight :
                    /\ old.id = new.id
                    /\ new.pc = "fetch" =>
                          \/ old = new
                          \/ /\ old.pc \in {"rpc", "fallback"}
                             /\ state'.txSignature = new.id
                    /\ new.pc = "wallets" => old.pc \in {"fetch", "wallets"}
          /\ (Len(invocations') > Len(invocations)) => state'.txSignature = NoSignature
          /\ (state'.txSignature # state.txSignature /\ state'.txSignature # NoSignature) =>
                /\ Cardinality(InFlight) = 1
                /\ \E old \in InFlight :
                      /\ old.pc \in {"rpc", "fallback"}
                      /\ state'.txSignature = old.id
          /\ (state.isProcessing /\ ~state'.isProcessing) =>
                \E old \in InFlight :
                    /\ old \notin InFlight'
                    /\ old.pc # "fetch"]_vars

\* the second attempt of a session has succeeded and awaits
\* fetchInteractingWallets: its signature has replaced that of the first
C20_Witness ==
    /\ state.isProcessing
    /\ state.txSignature = 2
    /\ \E inv \in InFlight : inv.pc = "wallets" /\ inv.id = 2

----------------------------------------------------------------------------
(* C21: in the earlier revision, a getAccountInfo result or an account-    *)
(* change notification that arrives for a run of the effect whose cleanup  *)
(* has set isMounted to false changes neither counterData nor              *)
(* errorMessage; while no run is mounted the two do not change at all.     *)
C21_TornDownRunsAreSilent ==
    [][/\ (callback'.kind # "none" /\ ~callback'.wasMounted) => view' = view
       /\ ((\A r \in DOMAIN effectRuns : ~effectRuns[r].isMounted)
             /\ (\A r \in DOMAIN effectRuns' : ~effectRuns'[r].isMounted)) => view' = view]_vars

\* after unmount, with counter data c1 displayed, the listener whose removal
\* was rejected is notified of an account that decodes to c2, the fetch of
\* its run having settled
C21_Witness ==
    /\ callback.kind = "notify"
    /\ ~callback.wasMounted
    /\ callback.accountInfo = AccountInfo(TRUE, "c2")
    /\ \A r \in DOMAIN effectRuns : ~effectRuns[r].isMounted
    /\ effectRuns[callback.run].listener = "registered"
    /\ effectRuns[callback.run].fetch = "settled"
    /\ view.counterData = "c1"

----------------------------------------------------------------------------
\* the types the earlier revision has a width for
EarlierWidths == {"u8", "u16", "u32", "u64", "u128", "bool"}

\* td is a struct schema whose fields are all of a type in EarlierWidths
SimpleStruct(td) ==
    /\ td.present
    /\ td.type.kind = "struct"
    /\ \A i \in DOMAIN td.type.fields :
          td.type.fields[i].k = "prim" /\ td.type.fields[i].name \in EarlierWidths

(* C22: for a struct schema whose fields are all u8, u16, u32, u64, u128   *)
(* or bool the two revisions write the same account size; for every other  *)
(* schema the earlier revision's size is at most the later revision's.     *)
C22_RevisionsAgree ==
    written.done =>
        IF SimpleStruct(CounterTypeDef(idl))
        THEN written.earlier = written.later
        ELSE /\ written.earlier.kind = "number"
             /\ written.later.kind = "number"
             /\ written.earlier.value <= written.later.value

----------------------------------------------------------------------------
(* C23: readUint64LE(buffer, offset) returns the sum over i in 0..7 of     *)
(* buffer[offset + i] * 256^i when buffer.length >= offset + 8, and throws *)
(* without a value when buffer.length < offset + 8.  The sum is compared   *)
(* limb by limb: limb k (of weight 65536^k) is                             *)
(* buffer[offset + 2k] + 256 * buffer[offset + 2k + 1], so the value is    *)
(* below 2^64.                                                             *)
C23_LittleEndianSum ==
    readCall.outcome \in {"value", "error"} =>
        IF Len(readCall.buffer) >= readCall.offset + 8
        THEN /\ readCall.outcome = "value"
             /\ Len(readCall.value) = 4
             /\ \A k \in 0..3 :
                   /\ readCall.value[k + 1] =
                         readCall.buffer[readCall.offset + 2 * k + 1]
                            + 256 * readCall.buffer[readCall.offset + 2 * k + 2]
                   /\ readCall.value[k + 1] \in 0..(LimbBase - 1)
        ELSE readCall.outcome = "error"

\* the eight bytes 255 255 1 0 0 255 255 255 were read at offset 1
C23_Witness ==
    /\ readCall.outcome = "value"
    /\ readCall.offset = 1
    /\ readCall.buffer = <<0, 255, 255, 1, 0, 0, 255, 255, 255>>
    /\ readCall.value = <<65535, 1, 65280, 65535>>

====
